---- MODULE Spec2Model ----
(***************************************************************************)
(* Model of sync_linear_to_gcal.py: the reconciliation of Linear issues    *)
(* against Google Calendar events (main, upsert_event_for_issue,           *)
(* find_event_by_linear_id, build_event_body_from_issue and the date       *)
(* helpers), with the calendar as a store reached through list, insert and *)
(* patch.                                                                  *)
(*                                                                         *)
(* Time is counted in minutes since an epoch, in UTC.  A date string is a  *)
(* record [form, d, m, aware, off]: form "none" is None or the empty       *)
(* string, "date" is YYYY-MM-DD (day number d), "datetime" is a timestamp  *)
(* with the 'T' separator (day d, minute of day m, UTC offset off minutes  *)
(* when aware), "bad_date" and "bad_datetime" are strings isoparse rejects,*)
(* without and with a 'T' in them.                                         *)
(***************************************************************************)
EXTENDS Integers, Sequences, FiniteSets, TLC

\* ------------------------------------------------------------------ bounds
MaxRuns == 2          \* number of invocations of main
MaxBatch == 2         \* number of issues the source returns in one run
MaxEmptyPages == 1    \* empty pages the store may return before the last page
BaseDay == 400        \* day number of the earliest date used in the inputs

\* --------------------------------------------------------- program constants
SEARCH_WINDOW_DAYS == 365
MinutesPerDay == 1440
MinutesPerHour == 60
\* datetime.time.max is 23:59:59.999999: later than every whole minute of its
\* day, earlier than the next midnight.  The store compares an event's start
\* strictly (start < timeMax) and the timestamps of the model are whole
\* minutes, so the minute count of the next midnight orders the same way
DtTimeMax == 1440

\* -------------------------------------------------------------- date strings
NoDate == [form |-> "none", d |-> 0, m |-> 0, aware |-> FALSE, off |-> 0]
DateOnly(day) == [form |-> "date", d |-> day, m |-> 0, aware |-> FALSE, off |-> 0]
DateTimeZ(day, minute) ==
    [form |-> "datetime", d |-> day, m |-> minute, aware |-> TRUE, off |-> 0]
DateTimeNaive(day, minute) ==
    [form |-> "datetime", d |-> day, m |-> minute, aware |-> FALSE, off |-> 0]
DateTimeOff(day, minute, offset) ==
    [form |-> "datetime", d |-> day, m |-> minute, aware |-> TRUE, off |-> offset]
BadDate == [form |-> "bad_date", d |-> 0, m |-> 0, aware |-> FALSE, off |-> 0]
BadDateTime == [form |-> "bad_datetime", d |-> 0, m |-> 0, aware |-> FALSE, off |-> 0]

\* Python truthiness of a string or None
Truthy(s) == s.form # "none"
\* "T" in s
HasT(s) == s.form \in {"datetime", "bad_datetime"}
\* parser.isoparse(s) returns (TRUE) or raises ValueError (FALSE)
IsoParses(s) == s.form \in {"date", "datetime"}
\* parser.isoparse(s), then tzinfo = UTC when naive, as minutes since the epoch in UTC
IsoparseUtc(s) == s.d * MinutesPerDay + s.m - (IF s.aware THEN s.off ELSE 0)
\* parser.isoparse(s).date(): the day number of the string
IsoparseDate(s) == s.d

\* to_rfc3339: the timestamp in UTC; minutes since the epoch are already UTC
to_rfc3339(t) == t

\* make_search_window_for_date(target_iso): <<timeMin, timeMax>>; raises
\* (result "raise") when isoparse rejects the string
make_search_window_for_date(target_iso, now) ==
    IF ~Truthy(target_iso)
    THEN [st |-> "ok",
          lo |-> to_rfc3339(now - SEARCH_WINDOW_DAYS * MinutesPerDay),
          hi |-> to_rfc3339(now + SEARCH_WINDOW_DAYS * MinutesPerDay)]
    ELSE IF ~IsoParses(target_iso)
    THEN [st |-> "raise", lo |-> 0, hi |-> 0]
    ELSE IF HasT(target_iso)
    THEN [st |-> "ok",
          lo |-> to_rfc3339(IsoparseUtc(target_iso) - SEARCH_WINDOW_DAYS * MinutesPerDay),
          hi |-> to_rfc3339(IsoparseUtc(target_iso) + SEARCH_WINDOW_DAYS * MinutesPerDay)]
    ELSE [st |-> "ok",
          lo |-> to_rfc3339((IsoparseDate(target_iso) - SEARCH_WINDOW_DAYS) * MinutesPerDay),
          hi |-> to_rfc3339((IsoparseDate(target_iso) + SEARCH_WINDOW_DAYS) * MinutesPerDay
                            + DtTimeMax)]

\* ------------------------------------------------------------------- issues
NoProject == [present |-> FALSE, name |-> "", targetDate |-> NoDate]
Project(n, target) == [present |-> TRUE, name |-> n, targetDate |-> target]

MkIssue(id, title, due, project, completed, started, created) ==
    [isDict |-> TRUE, id |-> id, title |-> title, description |-> "", url |-> "",
     dueDate |-> due, project |-> project,
     completedAt |-> completed, startedAt |-> started, createdAt |-> created]

\* an element of the source's list that is not a dict
NotADict ==
    [isDict |-> FALSE, id |-> "", title |-> "", description |-> "", url |-> "",
     dueDate |-> NoDate, project |-> NoProject,
     completedAt |-> NoDate, startedAt |-> NoDate, createdAt |-> NoDate]

\* get_best_date_for_issue: <<date string, source name>>
get_best_date_for_issue(issue) ==
    IF ~issue.isDict THEN <<NoDate, "None">>
    ELSE IF Truthy(issue.dueDate) THEN <<issue.dueDate, "dueDate">>
    ELSE IF Truthy(issue.project.targetDate)
         THEN <<issue.project.targetDate, "project_targetDate">>
    ELSE IF Truthy(issue.completedAt) THEN <<issue.completedAt, "completedAt">>
    ELSE IF Truthy(issue.startedAt) THEN <<issue.startedAt, "startedAt">>
    ELSE IF Truthy(issue.createdAt) THEN <<issue.createdAt, "createdAt">>
    ELSE <<NoDate, "None">>

\* format_rich_description: the parts that "\n".join assembles, for the
\* issue's text, its project and its link
format_rich_description(issue) ==
    (IF issue.description # ""
     THEN <<"Description de l'issue:", issue.description, "">> ELSE <<>>)
    \o (IF issue.project.present
        THEN <<"Projet:", issue.project.name, "">> ELSE <<>>)
    \o (IF issue.url # "" THEN <<"Lien Linear:", issue.url>> ELSE <<>>)

\* the start and end of an event: {"date": ...} or {"dateTime": ...}
DayField(day) == [kind |-> "date", v |-> day]
InstantField(t) == [kind |-> "dateTime", v |-> t]
NoBody == [summary |-> "", description |-> <<>>, start |-> DayField(0),
           end |-> DayField(0), linear_id |-> "", linear_url |-> ""]

\* end_dt = start_dt + timedelta(hours=1)
EndDtSameAsStart(start_dt) == start_dt
EndDt(start_dt) == start_dt + MinutesPerHour

\* build_event_body_from_issue: [st, body]; st is "ok", "none" (returns None)
\* or "raise" (isoparse raises outside the try)
build_event_body_from_issue(issue, now) ==
    IF ~issue.isDict THEN [st |-> "none", body |-> NoBody]
    ELSE IF ~Truthy(issue.dueDate) THEN [st |-> "none", body |-> NoBody]
    ELSE IF ~HasT(issue.dueDate) /\ ~IsoParses(issue.dueDate)
    THEN [st |-> "raise", body |-> NoBody]
    ELSE LET start_dt == IF IsoParses(issue.dueDate)
                         THEN IsoparseUtc(issue.dueDate) ELSE now
             d == IsoparseDate(issue.dueDate)
         IN [st |-> "ok",
             body |-> [summary |-> IF issue.title # "" THEN issue.title ELSE "No title",
                       description |-> format_rich_description(issue),
                       start |-> IF HasT(issue.dueDate)
                                 THEN InstantField(to_rfc3339(start_dt))
                                 ELSE DayField(d),
                       end |-> IF HasT(issue.dueDate)
                               THEN InstantField(to_rfc3339(EndDt(start_dt)))
                               ELSE DayField(d + 1),
                       linear_id |-> issue.id,
                       linear_url |-> issue.url]]

\* ------------------------------------------------------------- the inputs
FarDay == BaseDay + SEARCH_WINDOW_DAYS + 1
IssueDue == MkIssue("I1", "Ship v2", DateOnly(BaseDay), NoProject,
                    NoDate, NoDate, DateTimeZ(BaseDay - 1, 540))
IssueDueMoved == MkIssue("I1", "Ship v2", DateOnly(FarDay), NoProject,
                         NoDate, NoDate, DateTimeZ(BaseDay - 1, 540))
IssueDueTime == MkIssue("I1", "Ship v2", DateTimeZ(BaseDay, 600), NoProject,
                        NoDate, NoDate, DateTimeZ(BaseDay - 1, 540))
IssueTargetOnly == MkIssue("I2", "Plan", NoDate, Project("Roadmap", DateOnly(BaseDay)),
                           NoDate, NoDate, DateTimeZ(BaseDay - 1, 540))
IssueNoDates == MkIssue("I2", "Plan", NoDate, NoProject, NoDate, NoDate, NoDate)
IssueBadDate == MkIssue("I3", "", BadDate, NoProject, NoDate, NoDate, NoDate)
IssueBadDateTime == MkIssue("I3", "", BadDateTime, NoProject, NoDate, NoDate, NoDate)
IssueNoId == MkIssue("", "Anon", DateOnly(BaseDay), NoProject, NoDate, NoDate, NoDate)
IssueNoIdBadDateTime == MkIssue("", "Anon", BadDateTime, NoProject, NoDate, NoDate, NoDate)
\* the issue I1 with its date exactly SEARCH_WINDOW_DAYS days later, as a date
\* and as a timestamp, and half an hour more than that later
EdgeDay == BaseDay + SEARCH_WINDOW_DAYS
IssueDueEdge == MkIssue("I1", "Ship v2", DateOnly(EdgeDay), NoProject,
                        NoDate, NoDate, DateTimeZ(BaseDay - 1, 540))
IssueDueTimeEdge == MkIssue("I1", "Ship v2", DateTimeZ(EdgeDay, 600), NoProject,
                            NoDate, NoDate, DateTimeZ(BaseDay - 1, 540))
IssueDueTimeLater == MkIssue("I1", "Ship v2", DateTimeZ(EdgeDay, 630), NoProject,
                             NoDate, NoDate, DateTimeZ(BaseDay - 1, 540))
\* timestamps with a UTC offset (11:00+01:00) and without a timezone
IssueDueTimeOffset == MkIssue("I2", "Plan", DateTimeOff(BaseDay, 660, 60), NoProject,
                              NoDate, NoDate, DateTimeZ(BaseDay - 1, 540))
IssueDueTimeNaive == MkIssue("I3", "Retro", DateTimeNaive(BaseDay, 600), NoProject,
                             NoDate, NoDate, DateTimeZ(BaseDay - 1, 540))
\* the issue I1 once its dueDate is cleared, and another issue with a dueDate
IssueDueCleared == MkIssue("I1", "Ship v2", NoDate, NoProject, NoDate, NoDate, NoDate)
IssueOther == MkIssue("I2", "Plan", DateOnly(BaseDay + 1), NoProject,
                      NoDate, NoDate, DateTimeZ(BaseDay - 1, 540))

\* what the tracker may hold over the runs: an issue whose date moves, issues
\* with other date fields or malformed dates, issues without an identifier,
\* an issue whose date moves to the edge of the search window, timestamps in
\* their lexical variants, an issue that loses its date beside another one
SourceMovingDates == {IssueDue, IssueDueMoved, IssueDueTime, IssueNoDates, NotADict}
SourceDateFields == {IssueDue, IssueTargetOnly, IssueBadDate, IssueBadDateTime}
SourceNoIdentifier == {IssueDue, IssueNoId, IssueNoIdBadDateTime}
SourceShiftedDates == {IssueDue, IssueDueEdge, IssueDueTime, IssueDueTimeEdge,
                       IssueDueTimeLater}
SourceShapes == {IssueDueTimeOffset, IssueDueTimeNaive}
SourceOrphans == {IssueDue, IssueDueCleared, IssueOther}
Sources == {SourceMovingDates, SourceDateFields, SourceNoIdentifier,
            SourceShiftedDates, SourceShapes, SourceOrphans}

\* the source returns each issue once: no two issues of a batch have the same
\* id, and at most one of them has none
UniqueIds(batch) ==
    \A i, j \in 1..Len(batch) :
        (i # j /\ batch[i].isDict /\ batch[j].isDict) => batch[i].id # batch[j].id
Batches(src) == {b \in UNION {[1..n -> src] : n \in 0..MaxBatch} : UniqueIds(b)}

\* datetime.utcnow() during the n-th invocation of main, in minutes: the
\* clock advances from one invocation to the next
UtcNow(n) == (BaseDay + 2 * n) * MinutesPerDay + 30

\* what the store does during one issue: the list call number listFailAt
\* raises HttpError (0: none does), the insert or patch raises HttpError
Faults == {[listFailAt |-> k, writeFails |-> FALSE] : k \in 0..(MaxEmptyPages + 1)}
          \cup {[listFailAt |-> 0, writeFails |-> TRUE]}
NoFault == [listFailAt |-> 0, writeFails |-> FALSE]

\* ------------------------------------------------------- the calendar store
\* the calendar is the sequence of its events in store order; the store
\* assigns the position as the event's id
EventStart(e) == IF e.start.kind = "date" THEN e.start.v * MinutesPerDay ELSE e.start.v
EventEnd(e) == IF e.end.kind = "date" THEN e.end.v * MinutesPerDay ELSE e.end.v

\* events().list(timeMin, timeMax, privateExtendedProperty="linear_id=..."):
\* the ids of the events with that property that end after timeMin and
\* start before timeMax, in store order
StoreListNoFilter(cal, lo, hi, linear_id) ==
    SelectSeq([i \in 1..Len(cal) |-> i],
              LAMBDA i : EventEnd(cal[i]) > lo /\ EventStart(cal[i]) < hi)
StoreListNoWindow(cal, lo, hi, linear_id) ==
    SelectSeq([i \in 1..Len(cal) |-> i], LAMBDA i : cal[i].linear_id = linear_id)
StoreList(cal, lo, hi, linear_id) ==
    SelectSeq([i \in 1..Len(cal) |-> i],
              LAMBDA i : /\ cal[i].linear_id = linear_id
                         /\ EventEnd(cal[i]) > lo
                         /\ EventStart(cal[i]) < hi)

\* the chain of pages of one search: lead empty pages that carry a
\* nextPageToken, then the last page
StorePages(matches, lead) == [k \in 1..lead |-> <<>>] \o <<matches>>

\* events().insert(body): the store assigns the id
StoreInsertUnique(cal, body) ==
    IF \E k \in 1..Len(cal) : cal[k].linear_id = body.linear_id
    THEN cal
    ELSE Append(cal, [id |-> Len(cal) + 1, summary |-> body.summary,
                      description |-> body.description, start |-> body.start,
                      end |-> body.end, linear_id |-> body.linear_id,
                      linear_url |-> body.linear_url])
StoreInsert(cal, body) ==
    Append(cal, [id |-> Len(cal) + 1, summary |-> body.summary,
                 description |-> body.description, start |-> body.start,
                 end |-> body.end, linear_id |-> body.linear_id,
                 linear_url |-> body.linear_url])

\* events().patch(eventId, body): the fields of the body replace the event's
StorePatch(cal, event_id, body) ==
    [cal EXCEPT ![event_id] =
        [id |-> event_id, summary |-> body.summary,
         description |-> body.description, start |-> body.start,
         end |-> body.end, linear_id |-> body.linear_id,
         linear_url |-> body.linear_url]]

\* ------------------------------------------------- find_event_by_linear_id
\* except HttpError: print, raise
SearchErrorSwallowed(k) == [st |-> "none", ev |-> 0, lists |-> k, listFailed |-> TRUE]
SearchError(k) == [st |-> "raise", ev |-> 0, lists |-> k, listFailed |-> TRUE]

\* the while True loop, at its k-th list call
PageLoopStopsOnEmpty(pages, k, listFailAt) ==
    IF k = listFailAt THEN SearchError(k)
    ELSE IF pages[k] # <<>>
    THEN [st |-> "found", ev |-> pages[k][1], lists |-> k, listFailed |-> FALSE]
    ELSE [st |-> "none", ev |-> 0, lists |-> k, listFailed |-> FALSE]
RECURSIVE PageLoop(_, _, _)
PageLoop(pages, k, listFailAt) ==
    IF k = listFailAt THEN SearchError(k)
    ELSE IF pages[k] # <<>>
    THEN [st |-> "found", ev |-> pages[k][1], lists |-> k, listFailed |-> FALSE]
    ELSE IF k < Len(pages)
    THEN PageLoop(pages, k + 1, listFailAt)
    ELSE [st |-> "none", ev |-> 0, lists |-> k, listFailed |-> FALSE]

\* if not service or not calendar_id or not linear_id: return None
NoLinearIdNeverTrue(linear_id) == FALSE
NoLinearId(linear_id) == linear_id = ""

find_event_by_linear_id(cal, linear_id, target_date_iso, now, lead, listFailAt) ==
    IF NoLinearId(linear_id)
    THEN [st |-> "none", ev |-> 0, lists |-> 0, listFailed |-> FALSE]
    ELSE LET w == make_search_window_for_date(target_date_iso, now)
         IN IF w.st = "raise"
            THEN [st |-> "raise", ev |-> 0, lists |-> 0, listFailed |-> FALSE]
            ELSE PageLoop(StorePages(StoreList(cal, w.lo, w.hi, linear_id), lead),
                          1, listFailAt)

\* -------------------------------------------------- upsert_event_for_issue
\* what one call did: whether the body was built, the list calls made, the
\* write attempted and the event it addressed
Rec(built, f, write, writeFailed, target) ==
    [built |-> built, lists |-> f.lists, listFailed |-> f.listFailed,
     found |-> f.ev, write |-> write, writeFailed |-> writeFailed, target |-> target]
NoSearch == [st |-> "none", ev |-> 0, lists |-> 0, listFailed |-> FALSE]

\* if not due_date: print, return None
NoDueDateAlwaysFalse(issue) == FALSE
NoDueDate(issue) == ~Truthy(issue.dueDate)

\* the result is [res, cal, rec]: res is "event" (the event the store
\* returned), "none" (return None) or "raise"; cal is the calendar afterwards
upsert_event_for_issue(cal, issue, now, lead, fault) ==
    IF ~issue.isDict
    THEN [res |-> "none", cal |-> cal, rec |-> Rec(FALSE, NoSearch, "none", FALSE, 0)]
    ELSE IF NoDueDate(issue)
    THEN [res |-> "none", cal |-> cal, rec |-> Rec(FALSE, NoSearch, "none", FALSE, 0)]
    ELSE
    LET b == build_event_body_from_issue(issue, now) IN
    IF b.st = "raise"
    THEN [res |-> "raise", cal |-> cal, rec |-> Rec(TRUE, NoSearch, "none", FALSE, 0)]
    ELSE IF b.st = "none"
    THEN [res |-> "none", cal |-> cal, rec |-> Rec(TRUE, NoSearch, "none", FALSE, 0)]
    ELSE
    LET existing == find_event_by_linear_id(cal, issue.id, issue.dueDate, now,
                                            lead, fault.listFailAt) IN
    IF existing.st = "raise"
    THEN [res |-> "raise", cal |-> cal, rec |-> Rec(TRUE, existing, "none", FALSE, 0)]
    ELSE IF existing.st = "found"
    THEN IF fault.writeFails
         THEN [res |-> "raise", cal |-> cal,
               rec |-> Rec(TRUE, existing, "patch", TRUE, cal[existing.ev].id)]
         ELSE [res |-> "event", cal |-> StorePatch(cal, cal[existing.ev].id, b.body),
               rec |-> Rec(TRUE, existing, "patch", FALSE, cal[existing.ev].id)]
    ELSE IF fault.writeFails
         THEN [res |-> "raise", cal |-> cal,
               rec |-> Rec(TRUE, existing, "insert", TRUE, 0)]
         ELSE [res |-> "event", cal |-> StoreInsert(cal, b.body),
               rec |-> Rec(TRUE, existing, "insert", FALSE, Len(cal) + 1)]

\* --------------------------------------------------------------------- main
VARIABLES
    source,         \* the issues the tracker may return, fixed for a behaviour
    pc,             \* where main is: "start", "loop", "summary", "aborted"
    runs,           \* invocations of main so far
    issues,         \* the list get_issues_with_metadata returned
    idx,            \* position of the for loop in issues
    calendar,       \* the events of the calendar, in store order
    synced_count, skipped_count, error_count,
    trace,          \* per processed issue of this run: its outcome and Rec
    calAtStart,     \* the calendar when this run began
    shadow,         \* the calendar this run would have made of calAtStart had
                    \* none of its store operations failed
    fetch_failed,   \* get_issues_with_metadata raised in this run
    prev_clean,     \* the previous run reached its summary with no store
                    \* operation failing; issues still holds its issues
    repeat,         \* this run was given the issues of the previous run,
                    \* which reached its summary with no store operation failing
    workers         \* executions of upsert_event_for_issue that overlap on
                    \* the calendar: where each is, its issue, what its
                    \* search returned and what it wrote

vars == <<source, pc, runs, issues, idx, calendar, synced_count, skipped_count,
          error_count, trace, calAtStart, shadow, fetch_failed, prev_clean, repeat,
          workers>>

\* the executions that may overlap, and one that has not taken an issue yet
Workers == {"w1", "w2"}
IdleWorker(left) ==
    [pc |-> "idle", left |-> left, issue |-> NotADict, body |-> NoBody,
     existing |-> NoSearch, write |-> "none", writeFailed |-> FALSE, target |-> 0]

\* no store operation failed in the run so far
CleanRun ==
    \A i \in 1..Len(trace) : ~trace[i].rec.listFailed /\ ~trace[i].rec.writeFailed

Init ==
    /\ source \in Sources
    /\ pc = "start"
    /\ runs = 0
    /\ issues = <<>>
    /\ idx = 1
    /\ calendar = <<>>
    /\ synced_count = 0
    /\ skipped_count = 0
    /\ error_count = 0
    /\ trace = <<>>
    /\ calAtStart = <<>>
    /\ shadow = <<>>
    /\ fetch_failed = FALSE
    /\ prev_clean = FALSE
    /\ repeat = FALSE
    /\ workers = [w \in Workers |-> IdleWorker(0)]

\* a new invocation of main begins
BeginRun ==
    /\ pc = "start"
    /\ runs < MaxRuns
    /\ runs' = runs + 1
    /\ calAtStart' = calendar
    /\ shadow' = calendar
    /\ UNCHANGED <<workers, source, calendar, idx, synced_count, skipped_count,
                   error_count, trace, prev_clean>>

\* except Exception as e: print, raise
FetchErrorTreatedAsEmpty == [pc |-> "loop", issues |-> <<>>]
FetchError == [pc |-> "aborted", issues |-> <<>>]

\* get_issues_with_metadata returns the nodes
FetchIssues ==
    /\ BeginRun
    /\ \E batch \in Batches(source) :
        /\ issues' = batch
        /\ repeat' = (prev_clean /\ batch = issues)
    /\ pc' = "loop"
    /\ fetch_failed' = FALSE

\* get_issues_with_metadata raises
FetchRaises ==
    /\ BeginRun
    /\ issues' = FetchError.issues
    /\ pc' = FetchError.pc
    /\ fetch_failed' = TRUE
    /\ repeat' = FALSE

\* the body of the for loop for the result of upsert_event_for_issue:
\* the counters afterwards, the outcome, and whether the loop goes on
TallyErrorAborts(res, synced, skipped, errors) ==
    IF res = "event"
    THEN [synced |-> synced + 1, skipped |-> skipped, errors |-> errors,
          outcome |-> "Synced", goes_on |-> TRUE]
    ELSE IF res = "none"
    THEN [synced |-> synced, skipped |-> skipped + 1, errors |-> errors,
          outcome |-> "Skipped", goes_on |-> TRUE]
    ELSE [synced |-> synced, skipped |-> skipped, errors |-> errors + 1,
          outcome |-> "Failed", goes_on |-> FALSE]
TallyErrorUncounted(res, synced, skipped, errors) ==
    IF res = "event"
    THEN [synced |-> synced + 1, skipped |-> skipped, errors |-> errors,
          outcome |-> "Synced", goes_on |-> TRUE]
    ELSE IF res = "none"
    THEN [synced |-> synced, skipped |-> skipped + 1, errors |-> errors,
          outcome |-> "Skipped", goes_on |-> TRUE]
    ELSE [synced |-> synced, skipped |-> skipped, errors |-> errors,
          outcome |-> "Failed", goes_on |-> TRUE]
Tally(res, synced, skipped, errors) ==
    IF res = "event"
    THEN [synced |-> synced + 1, skipped |-> skipped, errors |-> errors,
          outcome |-> "Synced", goes_on |-> TRUE]
    ELSE IF res = "none"
    THEN [synced |-> synced, skipped |-> skipped + 1, errors |-> errors,
          outcome |-> "Skipped", goes_on |-> TRUE]
    ELSE [synced |-> synced, skipped |-> skipped, errors |-> errors + 1,
          outcome |-> "Failed", goes_on |-> TRUE]

\* one iteration of the for loop
ProcessIssue ==
    /\ pc = "loop"
    /\ idx <= Len(issues)
    /\ \E lead \in 0..MaxEmptyPages, fault \in Faults :
        LET r == upsert_event_for_issue(calendar, issues[idx], UtcNow(runs), lead, fault)
            t == Tally(r.res, synced_count, skipped_count, error_count)
            r0 == upsert_event_for_issue(shadow, issues[idx], UtcNow(runs), lead, NoFault)
            t0 == Tally(r0.res, synced_count, skipped_count, error_count)
        IN /\ calendar' = r.cal
           /\ shadow' = r0.cal
           /\ synced_count' = t.synced
           /\ skipped_count' = t.skipped
           /\ error_count' = t.errors
           /\ trace' = Append(trace, [outcome |-> t.outcome, rec |-> r.rec,
                                  unfailed |-> t0.outcome])
           /\ pc' = IF t.goes_on THEN "loop" ELSE "aborted"
    /\ idx' = idx + 1
    /\ UNCHANGED <<workers, source, runs, issues, calAtStart, fetch_failed, prev_clean, repeat>>

\* the loop is over: the summary is printed
Summary ==
    /\ pc = "loop"
    /\ idx > Len(issues)
    /\ pc' = "summary"
    /\ UNCHANGED <<workers, source, runs, issues, idx, calendar, synced_count, skipped_count,
                   error_count, trace, calAtStart, shadow, fetch_failed, prev_clean,
                   repeat>>

\* the process ends, after the summary or on the exception main let through
Exit ==
    /\ pc \in {"summary", "aborted"}
    /\ pc' = "start"
    /\ prev_clean' = (pc = "summary" /\ CleanRun)
    /\ trace' = <<>>
    /\ idx' = 1
    /\ synced_count' = 0
    /\ skipped_count' = 0
    /\ error_count' = 0
    /\ fetch_failed' = FALSE
    /\ repeat' = FALSE
    /\ calAtStart' = calendar
    /\ shadow' = calendar
    /\ UNCHANGED <<workers, source, runs, issues, calendar>>

Next == FetchIssues \/ FetchRaises \/ ProcessIssue \/ Summary \/ Exit

Spec == Init /\ [][Next]_vars

\* main is one sequential process: an iteration of the for loop that can
\* be taken is taken, and so is the step from the loop to the summary
SpecLive == Spec /\ WF_vars(ProcessIssue) /\ WF_vars(Summary)

\* ------------------------------------------- overlapping executions
\* the issues two overlapping executions are given
RaceIssues == {IssueDue, IssueOther}
RaceVarsUnchanged ==
    UNCHANGED <<source, pc, runs, issues, idx, synced_count, skipped_count,
                error_count, trace, calAtStart, shadow, fetch_failed, prev_clean,
                repeat>>

InitRace ==
    /\ source = RaceIssues
    /\ pc = "race"
    /\ runs = 1
    /\ issues = <<>>
    /\ idx = 1
    /\ calendar = <<>>
    /\ synced_count = 0
    /\ skipped_count = 0
    /\ error_count = 0
    /\ trace = <<>>
    /\ calAtStart = <<>>
    /\ shadow = <<>>
    /\ fetch_failed = FALSE
    /\ prev_clean = FALSE
    /\ repeat = FALSE
    /\ workers = [w \in Workers |-> IdleWorker(MaxBatch)]

\* upsert_event_for_issue up to and including the search: the execution
\* takes its next issue, builds the body and calls find_event_by_linear_id
WorkerSearch(w) ==
    /\ workers[w].pc \in {"idle", "done"}
    /\ workers[w].left > 0
    /\ \E issue \in source, lead \in 0..MaxEmptyPages,
          listFailAt \in 0..(MaxEmptyPages + 1) :
        LET b == build_event_body_from_issue(issue, UtcNow(runs))
            taken == [IdleWorker(workers[w].left - 1) EXCEPT !.issue = issue]
        IN IF NoDueDate(issue) \/ b.st # "ok"
           THEN workers' = [workers EXCEPT ![w] = [taken EXCEPT !.pc = "done"]]
           ELSE LET existing == find_event_by_linear_id(calendar, issue.id, issue.dueDate,
                                                        UtcNow(runs), lead, listFailAt)
                IN workers' = [workers EXCEPT ![w] =
                       [taken EXCEPT !.pc = IF existing.st = "raise" THEN "done" ELSE "write",
                                     !.body = b.body,
                                     !.existing = existing]]
    /\ UNCHANGED calendar
    /\ RaceVarsUnchanged

\* the rest of upsert_event_for_issue: patch the event the search returned,
\* or insert when it returned none
WorkerWrite(w) ==
    /\ workers[w].pc = "write"
    /\ \E writeFails \in BOOLEAN :
        LET me == workers[w]
            patches == me.existing.st = "found"
            target == IF patches THEN calendar[me.existing.ev].id ELSE Len(calendar) + 1
        IN /\ calendar' = IF writeFails THEN calendar
                          ELSE IF patches THEN StorePatch(calendar, target, me.body)
                          ELSE StoreInsert(calendar, me.body)
           /\ workers' = [workers EXCEPT ![w] =
                  [me EXCEPT !.pc = "done",
                             !.write = IF patches THEN "patch" ELSE "insert",
                             !.writeFailed = writeFails,
                             !.target = IF writeFails THEN 0 ELSE target]]
    /\ RaceVarsUnchanged

NextRace == \E w \in Workers : WorkerSearch(w) \/ WorkerWrite(w)

SpecRace == InitRace /\ [][NextRace]_vars

\* ------------------------------------------------------------------ helpers
Processed == 1..Len(trace)
StoreFailed(i) == trace[i].rec.listFailed \/ trace[i].rec.writeFailed
GoverningDate(issue) == get_best_date_for_issue(issue)[1]
\* the start of an event scheduled on a date string
StartOn(s) == IF HasT(s) THEN InstantField(IsoparseUtc(s)) ELSE DayField(IsoparseDate(s))
EventsOf(cal, linear_id) == {k \in 1..Len(cal) : cal[k].linear_id = linear_id}
CountOutcome(o) == Cardinality({i \in Processed : trace[i].outcome = o})

\* --------------------------------------------------------------- the claims

\* C1: a run repeated with the issues of the previous run, no store operation
\* failing in either, leaves the calendar as the previous run left it and
\* inserts no event.
Idempotence ==
    (pc = "summary" /\ repeat /\ CleanRun)
        => /\ calendar = calAtStart
           /\ \A i \in Processed : trace[i].rec.write # "insert"

\* C2: no two events of the calendar carry the same source identifier
\* (linear_id), whatever the runs so far were given.
AtMostOneCorrelation ==
    \A j, k \in 1..Len(calendar) :
        (j # k /\ calendar[j].linear_id # "")
            => calendar[j].linear_id # calendar[k].linear_id

\* C3: an issue whose search, insert or patch fails is tallied Failed and the
\* loop goes on; every other issue of the batch is processed and tallied as
\* it is in the same run with no store operation failing.
FailureIsolation ==
    /\ \A i \in Processed :
          /\ StoreFailed(i) => trace[i].outcome = "Failed"
          /\ ~StoreFailed(i) => trace[i].outcome = trace[i].unfailed
    /\ error_count >= Cardinality({i \in Processed : StoreFailed(i)})
    /\ pc = "aborted" => fetch_failed
    /\ pc = "loop" => Len(trace) = idx - 1
    /\ pc = "summary" => Len(trace) = Len(issues)
FailureIsolationWitness ==
    /\ pc = "summary"
    /\ Len(issues) = 2
    /\ \E i, j \in Processed :
          /\ i < j
          /\ trace[i].rec.writeFailed
          /\ trace[j].outcome = "Synced"

\* C4: after a run with no store error, an issue with an identifier is
\* scheduled on the first populated of dueDate, project targetDate,
\* completedAt, startedAt, createdAt: it is tallied Synced and an event with
\* its identifier starts on that date.
PriorityFallback ==
    (pc = "summary" /\ CleanRun)
        => \A i \in Processed :
              (issues[i].isDict /\ issues[i].id # "" /\ IsoParses(GoverningDate(issues[i])))
                  => /\ trace[i].outcome = "Synced"
                     /\ \E k \in EventsOf(calendar, issues[i].id) :
                           calendar[k].start = StartOn(GoverningDate(issues[i]))

SearchFailureIsNotNoMatch ==
    \A i \in Processed :
        trace[i].rec.listFailed
            => /\ trace[i].rec.write = "none"
               /\ trace[i].rec.found = 0
               /\ trace[i].outcome = "Failed"
SearchFailureWitness ==
    \E i \in Processed :
        /\ trace[i].rec.listFailed
        /\ trace[i].rec.lists = 2
        /\ EventsOf(calendar, issues[i].id) # {}

\* C7: at the summary synced + skipped + failed is the number of issues of
\* the batch, each issue counted in exactly one counter.
TallyConservation ==
    pc = "summary"
        => /\ synced_count + skipped_count + error_count = Len(issues)
           /\ Len(trace) = Len(issues)
           /\ synced_count = CountOutcome("Synced")
           /\ skipped_count = CountOutcome("Skipped")
           /\ error_count = CountOutcome("Failed")
TallyWitness ==
    pc = "summary" /\ error_count = 1 /\ synced_count + skipped_count = 1

\* C8: an issue with every date field empty is not passed to
\* build_event_body_from_issue, causes no list, insert or patch, and is
\* tallied Skipped.
SkipOnNoDate ==
    \A i \in Processed :
        ~Truthy(GoverningDate(issues[i]))
            => /\ ~trace[i].rec.built
               /\ trace[i].rec.lists = 0
               /\ trace[i].rec.write = "none"
               /\ trace[i].outcome = "Skipped"
SkipOnNoDateWitness ==
    \E i \in Processed :
        /\ issues[i].isDict
        /\ ~Truthy(GoverningDate(issues[i]))
        /\ calendar # <<>>

\* C9: once an identifier has an event, no step adds another event with that
\* identifier: later runs patch it and never recreate it.
NeverRecreated ==
    [][\A k \in 1..Len(calendar) :
          calendar[k].linear_id # ""
              => Cardinality(EventsOf(calendar', calendar[k].linear_id))
                     = Cardinality(EventsOf(calendar, calendar[k].linear_id))]_vars

\* C10: an issue whose governing date is populated but lexically invalid is
\* tallied Failed or Skipped and gets no insert and no patch.
MalformedDateIsolation ==
    \A i \in Processed :
        (Truthy(GoverningDate(issues[i])) /\ ~IsoParses(GoverningDate(issues[i])))
            => /\ trace[i].outcome \in {"Failed", "Skipped"}
               /\ trace[i].rec.write = "none"

\* C11: the event written for an issue has the shape of its governing date
\* string: with a 'T', start and end timestamps one hour apart, the start at
\* the instant of the string; without, an all-day event on the date of the
\* string that ends the day after; no event mixes the two shapes.
DateShape ==
    /\ \A k \in 1..Len(calendar) : calendar[k].start.kind = calendar[k].end.kind
    /\ \A i \in Processed :
          trace[i].outcome = "Synced"
              => LET e == calendar[trace[i].rec.target]
                     s == GoverningDate(issues[i])
                 IN IF HasT(s)
                    THEN /\ e.start.kind = "dateTime"
                         /\ e.end.kind = "dateTime"
                         /\ e.end.v = e.start.v + 60
                         /\ IsoParses(s) =>
                               e.start.v = s.d * 1440 + s.m - (IF s.aware THEN s.off ELSE 0)
                    ELSE /\ e.start = [kind |-> "date", v |-> s.d]
                         /\ e.end = [kind |-> "date", v |-> s.d + 1]
DateShapeWitness ==
    /\ pc = "summary"
    /\ \E i, j \in Processed :
          /\ trace[i].outcome = "Synced" /\ issues[i] = IssueDueTimeOffset
          /\ calendar[trace[i].rec.target].start.v = BaseDay * 1440 + 600
          /\ trace[j].outcome = "Synced" /\ issues[j] = IssueDueTimeNaive

\* C12: a run deletes no event and changes no event whose linear_id is not
\* the identifier of an issue of the batch that resolves to a date: the
\* event of an issue that lost its date or left the source stays as it was.
OrphansUntouched ==
    /\ Len(calendar) >= Len(calAtStart)
    /\ \A k \in 1..Len(calAtStart) :
          calendar[k] # calAtStart[k]
              => \E i \in Processed :
                    /\ issues[i].isDict
                    /\ issues[i].id = calAtStart[k].linear_id
                    /\ Truthy(GoverningDate(issues[i]))
OrphansWitness ==
    /\ pc = "summary"
    /\ Len(calendar) > Len(calAtStart)
    /\ \E i \in Processed : issues[i] = IssueDueCleared
    /\ \E k \in 1..Len(calAtStart) :
          calAtStart[k].linear_id = "I1" /\ calendar[k] = calAtStart[k]

\* the instant a date string denotes (a date-only string: its midnight UTC)
InstantOf(s) == IF HasT(s) THEN IsoparseUtc(s) ELSE IsoparseDate(s) * MinutesPerDay
HalfWidth == SEARCH_WINDOW_DAYS * MinutesPerDay
\* issue i has an identifier and a well-formed dueDate, an event of run
\* start carries its identifier, and no store operation failed for it
Rescheduled(i) ==
    /\ issues[i].isDict
    /\ issues[i].id # ""
    /\ Truthy(issues[i].dueDate)
    /\ IsoParses(issues[i].dueDate)
    /\ ~StoreFailed(i)
    /\ EventsOf(calAtStart, issues[i].id) # {}
\* the search returned nothing and a second event was inserted, the events
\* of run start with that identifier being left as they were
DuplicateInserted(i) ==
    /\ trace[i].rec.found = 0
    /\ trace[i].rec.write = "insert"
    /\ trace[i].rec.target > Len(calAtStart)
    /\ trace[i].rec.target <= Len(calendar)
    /\ calendar[trace[i].rec.target].linear_id = issues[i].id
    /\ \A k \in EventsOf(calAtStart, issues[i].id) : calendar[k] = calAtStart[k]
\* the event starts more than SEARCH_WINDOW_DAYS days away from the date
MovedBeyondHalfWidth(e, s) ==
    \/ EventStart(e) - InstantOf(s) > HalfWidth
    \/ InstantOf(s) - EventStart(e) > HalfWidth
\* the event does not overlap the window around the date: it ends at or
\* before the window's start or starts at or after its end
OutsideWindow(e, s) ==
    IF HasT(s)
    THEN \/ EventEnd(e) <= InstantOf(s) - HalfWidth
         \/ EventStart(e) >= InstantOf(s) + HalfWidth
    ELSE \/ EventEnd(e) <= InstantOf(s) - HalfWidth
         \/ EventStart(e) >= InstantOf(s) + HalfWidth + MinutesPerDay

\* C13 as stated: an issue whose event starts more than SEARCH_WINDOW_DAYS
\* days away from its new date is not found, and a second event is inserted.
WindowMissOnAnyShift ==
    \A i \in Processed :
        (/\ Rescheduled(i)
         /\ \A k \in EventsOf(calAtStart, issues[i].id) :
               MovedBeyondHalfWidth(calAtStart[k], issues[i].dueDate))
            => DuplicateInserted(i)
\* C13: an issue whose events all lie outside the window around its new date
\* (a one-hour event ending after the window's start is still inside) is not
\* found, and the run inserts a second event with the same linear_id and
\* leaves the first as it was.
WindowMissCreatesDuplicate ==
    \A i \in Processed :
        (/\ Rescheduled(i)
         /\ \A k \in EventsOf(calAtStart, issues[i].id) :
               OutsideWindow(calAtStart[k], issues[i].dueDate))
            => DuplicateInserted(i)
WindowMissWitness ==
    \E i \in Processed :
        /\ issues[i] = IssueDueMoved
        /\ Rescheduled(i)
        /\ \A k \in EventsOf(calAtStart, "I1") : OutsideWindow(calAtStart[k], issues[i].dueDate)
        /\ DuplicateInserted(i)
        /\ Cardinality(EventsOf(calendar, "I1")) = 2

\* chains of pages of events: every page but the last carries a nextPageToken
PageChains ==
    UNION {[1..n -> {<<>>, <<1>>, <<2, 1>>}] : n \in 1..(MaxEmptyPages + 1)}
NonEmptyPages(pages) == {k \in 1..Len(pages) : pages[k] # <<>>}
FirstNonEmpty(pages) ==
    CHOOSE k \in NonEmptyPages(pages) : \A j \in NonEmptyPages(pages) : k <= j
\* the events the store holds for the search of issue i of the batch
MatchesOf(i) ==
    LET w == make_search_window_for_date(issues[i].dueDate, UtcNow(runs))
    IN StoreList(calAtStart, w.lo, w.hi, issues[i].id)

\* C14: the page loop requests page after page until one holds an event or
\* the chain ends; it returns the first event of the first non-empty page
\* and returns None only when every page of the chain was requested and was
\* empty. An empty page with a nextPageToken does not end the search.
Pagination ==
    /\ \A pages \in PageChains :
          LET f == PageLoop(pages, 1, 0)
          IN IF NonEmptyPages(pages) = {}
             THEN f.st = "none" /\ f.lists = Len(pages)
             ELSE /\ f.st = "found"
                  /\ f.lists = FirstNonEmpty(pages)
                  /\ f.ev = pages[FirstNonEmpty(pages)][1]
    /\ \A i \in Processed :
          (trace[i].rec.lists > 0 /\ ~trace[i].rec.listFailed)
              => /\ trace[i].rec.lists <= MaxEmptyPages + 1
                 /\ IF MatchesOf(i) = <<>>
                    THEN trace[i].rec.found = 0
                    ELSE trace[i].rec.found = MatchesOf(i)[1]
PaginationWitness ==
    \E i \in Processed :
        /\ trace[i].rec.lists = 2
        /\ ~trace[i].rec.listFailed
        /\ MatchesOf(i) # <<>>
        /\ trace[i].rec.found = MatchesOf(i)[1]
        /\ trace[i].rec.write = "patch"

\* C15: two executions that process issues with the same identifier on one
\* calendar are not serialized: each inserts when its own search returned no
\* match, whatever the other has written since, so two executions whose
\* searches both returned no match both insert and the calendar holds two
\* events with the same linear_id.
SearchThenWriteRace ==
    /\ \A w \in Workers :
          (/\ workers[w].pc = "done"
           /\ workers[w].existing.st = "none"
           /\ workers[w].existing.lists > 0
           /\ ~workers[w].existing.listFailed
           /\ ~workers[w].writeFailed)
              => /\ workers[w].write = "insert"
                 /\ workers[w].target \in 1..Len(calendar)
                 /\ calendar[workers[w].target].linear_id = workers[w].issue.id
    /\ \A v, w \in Workers :
          (/\ v # w
           /\ workers[v].pc = "done" /\ workers[w].pc = "done"
           /\ workers[v].issue.id = workers[w].issue.id
           /\ workers[v].write = "insert" /\ workers[w].write = "insert"
           /\ ~workers[v].writeFailed /\ ~workers[w].writeFailed)
              => /\ workers[v].target # workers[w].target
                 /\ Cardinality(EventsOf(calendar, workers[v].issue.id)) >= 2
RaceWitness ==
    /\ workers["w1"].pc = "done" /\ workers["w2"].pc = "done"
    /\ workers["w1"].left = MaxBatch - 1 /\ workers["w2"].left = MaxBatch - 1
    /\ workers["w1"].issue = IssueDue /\ workers["w2"].issue = IssueDue
    /\ workers["w1"].existing.st = "none" /\ workers["w2"].existing.st = "none"
    /\ workers["w1"].write = "insert" /\ workers["w2"].write = "insert"
    /\ Len(calendar) = 2
    /\ calendar[1].linear_id = "I1" /\ calendar[2].linear_id = "I1"

\* what the store did for issue i of this run: the empty pages that led its
\* search, the list call that failed, whether its write failed
LeadOf(i) == IF trace[i].rec.lists > 0 THEN trace[i].rec.lists - 1 ELSE 0
FaultOf(i) ==
    [listFailAt |-> IF trace[i].rec.listFailed THEN trace[i].rec.lists ELSE 0,
     writeFails |-> trace[i].rec.writeFailed]
\* the orders in which n issues can be processed
Orders(n) == {p \in [1..n -> 1..n] : \A a, b \in 1..n : a # b => p[a] # p[b]}
\* the for loop of main over the issues taken in the given order, from its
\* k-th iteration on, each issue meeting the store behaviour it met
RECURSIVE RunAll(_, _, _)
RunAll(st, order, k) ==
    IF k > Len(order) THEN st
    ELSE LET i == order[k]
             r == upsert_event_for_issue(st.cal, issues[i], UtcNow(runs),
                                         LeadOf(i), FaultOf(i))
             t == Tally(r.res, st.synced, st.skipped, st.errors)
         IN RunAll([cal |-> r.cal, synced |-> t.synced, skipped |-> t.skipped,
                    errors |-> t.errors], order, k + 1)
\* a calendar up to the ids the store gave the events inserted after the
\* first n: those n events in place, the others as a set without their ids
WithoutId(e) == [e EXCEPT !.id = 0]
UpToNewIds(cal, n) ==
    [old |-> SubSeq(cal, 1, n),
     new |-> {WithoutId(cal[k]) : k \in (n + 1)..Len(cal)},
     len |-> Len(cal)]

WindowCoversShift ==
    \A i \in Processed :
        (/\ Rescheduled(i)
         /\ \E k \in EventsOf(calAtStart, issues[i].id) :
               ~MovedBeyondHalfWidth(calAtStart[k], issues[i].dueDate))
            => /\ trace[i].rec.found # 0
               /\ trace[i].rec.write = "patch"
               /\ Cardinality(EventsOf(calendar, issues[i].id))
                      = Cardinality(EventsOf(calAtStart, issues[i].id))

\* C18: an issue with a dueDate and no id is never searched for: no list
\* call is made, and unless its date-only dueDate is malformed or the insert
\* fails, the run inserts a new event whose linear_id is the empty string,
\* one more such event per run.
NoIdentifierNeverCorrelated ==
    \A i \in Processed :
        (/\ issues[i].isDict
         /\ issues[i].id = ""
         /\ Truthy(issues[i].dueDate))
            => /\ trace[i].rec.lists = 0
               /\ trace[i].rec.found = 0
               /\ trace[i].rec.write # "patch"
               /\ ((HasT(issues[i].dueDate) \/ IsoParses(issues[i].dueDate))
                      /\ ~trace[i].rec.writeFailed)
                      => /\ trace[i].rec.write = "insert"
                         /\ trace[i].outcome = "Synced"
                         /\ trace[i].rec.target \in (Len(calAtStart) + 1)..Len(calendar)
                         /\ calendar[trace[i].rec.target].linear_id = ""
                         /\ Cardinality(EventsOf(calendar, ""))
                                = Cardinality(EventsOf(calAtStart, "")) + 1
NoIdentifierWitness ==
    /\ runs = 2
    /\ \E i \in Processed :
          /\ issues[i] = IssueNoId
          /\ trace[i].rec.lists = 0
          /\ trace[i].rec.write = "insert"
          /\ ~trace[i].rec.writeFailed
    /\ Cardinality(EventsOf(calAtStart, "")) = 1
    /\ Cardinality(EventsOf(calendar, "")) = 2
    /\ calendar[1] = [calendar[2] EXCEPT !.id = 1]

\* C19: a run whose searches each get a finite chain of pages reaches its
\* summary, whatever store operations fail, having processed each issue of
\* the batch exactly once.
RunTerminates ==
    /\ (pc = "loop")
          ~> (pc = "summary" /\ Len(trace) = Len(issues) /\ idx = Len(issues) + 1)
    /\ [][pc = "loop" => /\ pc' \in {"loop", "summary"}
                         /\ runs' = runs
                         /\ issues' = issues
                         /\ idx = Len(trace) + 1
                         /\ idx' \in {idx, idx + 1}]_vars
RunTerminatesWitness ==
    /\ pc = "summary"
    /\ Len(issues) = MaxBatch
    /\ Len(trace) = Len(issues)
    /\ \E i, j \in Processed :
          /\ trace[i].rec.listFailed /\ trace[i].rec.lists = MaxEmptyPages + 1
          /\ trace[j].rec.writeFailed
====
